---------------------------- MODULE Spec2Model ----------------------------
(***************************************************************************)
(* The two-phase crawl pipeline of the IndiaMART scraper:                  *)
(*   main.main                   the top-level driver over CATEGORIES      *)
(*   scraper.scrape_category     listing crawl, browser close, enrichment, *)
(*                               save_json                                 *)
(*   scraper.extract_detail_fast one detail fetch and field extraction     *)
(*   scraper.clean_text          whitespace normalisation                  *)
(*                                                                         *)
(* A string is a sequence of lexemes (one-character strings for text, a    *)
(* few multi-character lexemes such as "http" for URLs).  A Python value   *)
(* that may be None is a sequence of length at most one: None is <<>> and  *)
(* the string s is <<s>>.                                                  *)
(***************************************************************************)
EXTENDS Integers, Sequences, FiniteSets, TLC

(***************************************************************************)
(* Bounds of the model and constants of the program.                       *)
(***************************************************************************)
\* number of entries of scraper.config.CATEGORIES
NumCategories == 2
\* scraper.config.MAX_PAGES, the pagination depth
MAX_PAGES == 2
\* how many anchors more than the per-page cap the largest listing page has
Extra == 2
\* min(20, count): the per-page cap
PerPageCap == 20
\* the only status extract_detail_fast accepts
StatusOk == 200

Categories == 1..NumCategories

(***************************************************************************)
(* Optional values and strings.                                            *)
(***************************************************************************)
None == <<>>
Some(s) == <<s>>
\* Python truthiness of an Optional[str]: None and "" are falsy
Falsy(x) == x = None \/ x = Some(<<>>)

Whitespace == {" ", "\t", "\n"}

RECURSIVE DropLeadingWs(_)
DropLeadingWs(s) ==
    IF s = <<>> THEN <<>>
    ELSE IF Head(s) \in Whitespace THEN DropLeadingWs(Tail(s)) ELSE s

\* re.sub(r"\s+", " ", x): every maximal run of whitespace becomes one blank
RECURSIVE CollapseWs(_)
CollapseWs(s) ==
    IF s = <<>> THEN <<>>
    ELSE IF Head(s) \in Whitespace
         THEN <<" ">> \o CollapseWs(DropLeadingWs(Tail(s)))
         ELSE <<Head(s)>> \o CollapseWs(Tail(s))

RECURSIVE DropTrailingWs(_)
DropTrailingWs(s) ==
    IF s = <<>> THEN <<>>
    ELSE IF s[Len(s)] \in Whitespace
         THEN DropTrailingWs(SubSeq(s, 1, Len(s) - 1)) ELSE s

\* str.strip()
Strip(s) == DropTrailingWs(DropLeadingWs(s))

\* clean_text(x)
clean_text(x) == IF Falsy(x) THEN None ELSE Some(Strip(CollapseWs(x[1])))

BaseUrl == <<"https://www.indiamart.com">>

\* href.startswith("http")
StartsWithHttp(h) == Len(h) > 0 /\ Head(h) = "http"

\* urljoin("https://www.indiamart.com", href) for a path reference: the base
\* has an empty path, so an absolute path is appended and a relative one is
\* appended after "/"; an empty reference gives the base itself
urljoin(base, h) ==
    IF h = <<>> THEN base
    ELSE IF Head(h) = "/" THEN base \o h ELSE base \o <<"/">> \o h

\* full_url = href if href.startswith("http") else urljoin(base, href)
FullUrl(href) ==
    IF href = None THEN None
    ELSE IF StartsWithHttp(href[1]) THEN href ELSE Some(urljoin(BaseUrl, href[1]))

(***************************************************************************)
(* Listing pages the site may return.  An anchor has a visible text, an    *)
(* href attribute (None when the attribute is missing) and says which of   *)
(* its two reads raises, if any.                                           *)
(***************************************************************************)
Anchor(t, h, r) == [text |-> t, href |-> h, raises |-> r]

TextOf(k) ==
    CASE k % 3 = 0 -> Some(<<"a">>)
      [] k % 3 = 1 -> Some(<<" ", "b", " ", "\t", "c", "\n">>)
      [] OTHER     -> Some(<<"d", "\t", "e">>)

HrefOf(k) ==
    IF k % 2 = 0 THEN Some(<<"/", "proddetail", "/", "x">>)
                 ELSE Some(<<"http", "://h/", "y">>)

GoodAnchor(k) == Anchor(TextOf(k), HrefOf(k), "none")

MixedLinks ==
    << GoodAnchor(1),
       Anchor(Some(<<>>), HrefOf(0), "none"),
       Anchor(Some(<<" ", "\t", "\n">>), HrefOf(1), "none"),
       Anchor(TextOf(0), None, "none"),
       Anchor(TextOf(2), Some(<<>>), "none"),
       Anchor(Some(<<"f">>), Some(<<"proddetail", "/", "z">>), "none"),
       Anchor(Some(<<"g">>), Some(<<"http", "malformed">>), "none") >>

PartialLinks ==
    << GoodAnchor(0), GoodAnchor(1),
       Anchor(TextOf(2), HrefOf(2), "inner_text"),
       GoodAnchor(3) >>

PartialLinks2 ==
    << GoodAnchor(2), Anchor(TextOf(0), HrefOf(0), "get_attribute") >>

LongLinks == [k \in 1..(PerPageCap + Extra) |-> GoodAnchor(k)]

PageShapes == {"timeout", "nolocator", "empty", "mixed", "partial", "partial2", "long"}

\* what page.goto does on a page of this shape
NavOk(shape) == shape # "timeout"
\* what links.count() does
CountOk(shape) == shape # "nolocator"
\* the anchors page.locator("a.titles, a[href*='/proddetail/']") matches
LinksOf(shape) ==
    CASE shape = "mixed"    -> MixedLinks
      [] shape = "partial"  -> PartialLinks
      [] shape = "partial2" -> PartialLinks2
      [] shape = "long"     -> LongLinks
      [] OTHER              -> <<>>

(***************************************************************************)
(* Detail pages.  A response is a transport error, or a status with a      *)
(* body; a body may make the parser raise; a parsed body has its visible   *)
(* text and its og:title content.                                          *)
(***************************************************************************)
Response(k, st, p, t, og) ==
    [kind |-> k, status |-> st, parses |-> p, text |-> t, ogtitle |-> og]

NetError   == Response("error", 0, FALSE, <<>>, None)
NotFound   == Response("http", 404, TRUE, <<"Not", " ", "found">>, None)
NoContent  == Response("http", 204, TRUE, <<>>, None)
BadBody    == Response("http", StatusOk, FALSE, <<>>, None)
FullPage   == Response("http", StatusOk, TRUE,
                  <<"Price", " ", "rupee", "1,250", " ", "Delhi", " ", "Kerala">>,
                  Some(<<"Acme">>))
SpacedPage == Response("http", StatusOk, TRUE,
                  <<"rupee", " ", "99", " ", "Goa">>, Some(<<>>))
SparsePage == Response("http", StatusOk, TRUE,
                  <<"rupee", " ", " ", "7", " ", "unit">>, None)

\* how many ways the flaky web is phased against the fetches
Shifts == 5
WebModes ==
    {[mode |-> "up", shift |-> 0], [mode |-> "down", shift |-> 0]}
        \cup {[mode |-> "flaky", shift |-> s] : s \in 0..Shifts}

IsMalformed(url) == url # None /\ Len(url[1]) > 1 /\ url[1][2] = "malformed"

\* what requests.get(url) meets for the k-th fetch of a crawl
Respond(w, url, k) ==
    IF IsMalformed(url) \/ w.mode = "down" THEN NetError
    ELSE IF w.mode = "up" THEN FullPage
    ELSE LET n == (k + w.shift) % 7
         IN  CASE n = 0 -> NotFound
               [] n = 1 -> SpacedPage
               [] n = 2 -> BadBody
               [] n = 3 -> NoContent
               [] n = 4 -> SparsePage
               [] n = 5 -> FullPage
               [] OTHER -> NetError

Digits == {"1,250", "99", "7"}
States == {"Tamil Nadu", "Kerala", "Karnataka", "Maharashtra", "Delhi", "Gujarat",
           "Telangana", "Andhra Pradesh", "West Bengal", "Uttar Pradesh",
           "Rajasthan", "Punjab", "Haryana"}

\* re.search(r"(rupee\s?\d[\d,]*)", text): the first match, or None
PriceAt(t, j) ==
    IF t[j] # "rupee" THEN None
    ELSE IF j + 1 <= Len(t) /\ t[j + 1] \in Digits THEN Some(SubSeq(t, j, j + 1))
    ELSE IF j + 2 <= Len(t) /\ t[j + 1] \in Whitespace /\ t[j + 2] \in Digits
         THEN Some(SubSeq(t, j, j + 2))
    ELSE None

SearchPrice(t) ==
    LET hits == {j \in 1..Len(t) : PriceAt(t, j) # None}
    IN  IF hits = {} THEN None
        ELSE PriceAt(t, CHOOSE j \in hits : \A h \in hits : j <= h)

\* re.search(r"(Tamil Nadu|Kerala|...)", text): the leftmost state name
SearchState(t) ==
    LET hits == {j \in 1..Len(t) : t[j] \in States}
    IN  IF hits = {} THEN None
        ELSE Some(<<t[CHOOSE j \in hits : \A h \in hits : j <= h]>>)

NullFields == [price |-> None, supplier |-> None, location |-> None]

\* the except clause of extract_detail_fast: swallow, return the null fields
OnFetchException_reraise == [raised |-> TRUE, fields |-> NullFields]
OnFetchException == [raised |-> FALSE, fields |-> NullFields]

\* extract_detail_fast(url), given what the request met
extract_detail_fast(resp) ==
    IF resp.kind = "error" THEN OnFetchException
    ELSE IF resp.status # StatusOk
         THEN [raised |-> FALSE, fields |-> NullFields]
    ELSE IF ~resp.parses THEN OnFetchException
    ELSE [raised |-> FALSE,
          fields |-> [price    |-> SearchPrice(resp.text),
                      supplier |-> IF Falsy(resp.ogtitle) THEN None ELSE resp.ogtitle,
                      location |-> SearchState(resp.text)]]

(***************************************************************************)
(* State.                                                                  *)
(***************************************************************************)
VARIABLES
    mainPc,      \* main: "loop", "done" (run_etl and run_eda follow), "aborted"
    catIdx,      \* main: the category the for loop is at
    raw_files,   \* main: raw_files
    pc,          \* scrape_category: where the call stands
    playwright,  \* the async_playwright() context: "off", "on"
    browser,     \* the launched browser: "none", "open", "closed"
    page_no,     \* scrape_category: page_no
    N,           \* scrape_category: N
    i,           \* scrape_category: i
    all_items,   \* scrape_category: all_items
    results,     \* scrape_category: results
    idx,         \* scrape_category: idx
    written,     \* the data save_json was given
    web,         \* how the detail pages answer during this crawl
    raisedAt,    \* the call whose exception left scrape_category
    seen,        \* history: the shape of each listing page navigated to
    failed,      \* history: the page numbers whose try block raised
    origin,      \* history: <<page_no, i>> of the anchor behind each stub
    fetched      \* history: the URLs requests.get was called with

vars == <<mainPc, catIdx, raw_files, pc, playwright, browser, page_no, N, i,
          all_items, results, idx, written, web, raisedAt, seen, failed,
          origin, fetched>>

mainVars  == <<mainPc, catIdx, raw_files>>
histVars  == <<seen, failed, origin, fetched>>

Init ==
    /\ mainPc = "loop"
    /\ catIdx = 1
    /\ raw_files = <<>>
    /\ pc = "idle"
    /\ playwright = "off"
    /\ browser = "none"
    /\ page_no = 0
    /\ N = 0
    /\ i = 0
    /\ all_items = <<>>
    /\ results = <<>>
    /\ idx = 0
    /\ written = <<>>
    /\ web = [mode |-> "up", shift |-> 0]
    /\ raisedAt = "nowhere"
    /\ seen = <<>>
    /\ failed = {}
    /\ origin = <<>>
    /\ fetched = <<>>

(***************************************************************************)
(* Pieces of scrape_category.                                              *)
(***************************************************************************)
\* the anchors the locator matches on the page the browser is at
Links == LinksOf(seen[page_no])

\* N = min(20, count)
TakeN_uncapped(count) == count
TakeN(count) == IF count < PerPageCap THEN count ELSE PerPageCap

\* if not name or not href: continue
SkipAnchor_hrefOnly(name, href) == Falsy(href)
SkipAnchor(name, href) == Falsy(name) \/ Falsy(href)

Stub(c, name, url) ==
    [category |-> c, product_name |-> name, product_url |-> url,
     price |-> None, supplier |-> None, location |-> None]

\* where control goes once the listing loop is over: browser.close()
AfterListing_enrichFirst == "enrich"
AfterListing == "close"

\* for page_no in range(1, MAX_PAGES + 1): the step to the next iteration
NextPage(k) ==
    IF k < MAX_PAGES THEN [pc |-> "goto", page_no |-> k + 1]
                     ELSE [pc |-> AfterListing, page_no |-> k]

\* except Exception as e: print(...); continue
OnPageException_reraise(k) == [pc |-> "raised", page_no |-> k]
OnPageException(k) == NextPage(k)

\* what the except clause leaves in all_items: it touches nothing
ItemsAfterPageFailure_rollback(items, org, k) ==
    SubSeq(items, 1, Cardinality({j \in 1..Len(org) : org[j][1] # k}))
ItemsAfterPageFailure(items, org, k) == items

\* enrich_limit = len(all_items)
enrich_limit_capped(items) == IF Len(items) < 3 THEN Len(items) ELSE 3
enrich_limit(items) == Len(items)

\* item.update(detail_data)
Update(item, d) ==
    [item EXCEPT !.price = d.price, !.supplier = d.supplier, !.location = d.location]

\* results.append(item)
AppendResult_front(rs, item) == <<item>> \o rs
AppendResult(rs, item) == Append(rs, item)

\* an exception leaves the async with block: the playwright context exits
Raise(site) ==
    /\ pc' = "raised"
    /\ raisedAt' = site
    /\ playwright' = "off"

\* the try block of listing page page_no raised
PageFails ==
    LET nxt == OnPageException(page_no)
    IN  /\ failed' = failed \cup {page_no}
        /\ all_items' = ItemsAfterPageFailure(all_items, origin, page_no)
        /\ pc' = nxt.pc
        /\ page_no' = nxt.page_no
        /\ raisedAt' = IF nxt.pc = "raised" THEN "listing page" ELSE raisedAt
        /\ playwright' = IF nxt.pc = "raised" THEN "off" ELSE playwright

(***************************************************************************)
(* main                                                                    *)
(***************************************************************************)
\* out = await scrape_category(category, url): the call, results = [],
\* all_items = []
Call ==
    /\ mainPc = "loop" /\ pc = "idle" /\ catIdx \in Categories
    /\ pc' = "start"
    /\ \E w \in WebModes : web' = w
    /\ all_items' = <<>> /\ results' = <<>>
    /\ UNCHANGED <<mainVars, playwright, browser, page_no, N, i, idx, written,
                   raisedAt, histVars>>

\* scrape_category returned: its frame is gone; raw_files.append(out), next
\* category
Return ==
    /\ mainPc = "loop" /\ pc = "returned"
    /\ raw_files' = Append(raw_files, catIdx)
    /\ catIdx' = catIdx + 1
    /\ pc' = "idle"
    /\ page_no' = 0 /\ N' = 0 /\ i' = 0 /\ idx' = 0
    /\ all_items' = <<>> /\ results' = <<>> /\ written' = <<>>
    /\ browser' = "none" /\ playwright' = "off" /\ raisedAt' = "nowhere"
    /\ web' = [mode |-> "up", shift |-> 0]
    /\ seen' = <<>> /\ failed' = {} /\ origin' = <<>> /\ fetched' = <<>>
    /\ UNCHANGED mainPc

\* scrape_category raised: main has no handler, the exception leaves main
Abort ==
    /\ mainPc = "loop" /\ pc = "raised"
    /\ mainPc' = "aborted"
    /\ UNCHANGED <<catIdx, raw_files, pc, playwright, browser, page_no, N, i,
                   all_items, results, idx, written, web, raisedAt, histVars>>

\* the loop is over: run_etl(raw_files), run_eda(cleaned_csv)
Finish ==
    /\ mainPc = "loop" /\ pc = "idle" /\ catIdx \notin Categories
    /\ mainPc' = "done"
    /\ UNCHANGED <<catIdx, raw_files, pc, playwright, browser, page_no, N, i,
                   all_items, results, idx, written, web, raisedAt, histVars>>

(***************************************************************************)
(* scrape_category: session set-up                                         *)
(***************************************************************************)
\* async with async_playwright() as p
Start ==
    /\ pc = "start"
    /\ \/ /\ playwright' = "on" /\ pc' = "launch" /\ UNCHANGED raisedAt
       \/ Raise("async_playwright")
    /\ UNCHANGED <<mainVars, browser, page_no, N, i, all_items, results, idx,
                   written, web, histVars>>

\* browser = await p.chromium.launch(headless=True)
Launch ==
    /\ pc = "launch"
    /\ \/ /\ browser' = "open" /\ pc' = "new_page"
          /\ UNCHANGED <<raisedAt, playwright>>
       \/ Raise("launch") /\ UNCHANGED browser
    /\ UNCHANGED <<mainVars, page_no, N, i, all_items, results, idx, written,
                   web, histVars>>

\* page = await browser.new_page()
NewPage ==
    /\ pc = "new_page"
    /\ \/ pc' = "headers" /\ UNCHANGED <<raisedAt, playwright>>
       \/ Raise("new_page")
    /\ UNCHANGED <<mainVars, browser, page_no, N, i, all_items, results, idx,
                   written, web, histVars>>

\* await page.set_extra_http_headers({...}), then the first iteration
SetHeaders ==
    /\ pc = "headers"
    /\ \/ /\ pc' = NextPage(0).pc /\ page_no' = NextPage(0).page_no
          /\ UNCHANGED <<raisedAt, playwright>>
       \/ Raise("set_extra_http_headers") /\ UNCHANGED page_no
    /\ UNCHANGED <<mainVars, browser, N, i, all_items, results, idx, written,
                   web, histVars>>

(***************************************************************************)
(* scrape_category: step 1, the listing pages                              *)
(***************************************************************************)
\* await page.goto(target_url, ...), the wait and the three scrolls
Goto ==
    /\ pc = "goto"
    /\ \E shape \in PageShapes :
          /\ seen' = Append(seen, shape)
          /\ IF NavOk(shape)
             THEN /\ pc' = "count"
                  /\ UNCHANGED <<failed, all_items, page_no, raisedAt, playwright>>
             ELSE PageFails
    /\ UNCHANGED <<mainVars, browser, N, i, results, idx, written, web, origin,
                   fetched>>

\* links = page.locator(...); count = await links.count(); N = min(20, count)
Count ==
    /\ pc = "count"
    /\ IF CountOk(seen[page_no])
       THEN /\ N' = TakeN(Len(Links))
            /\ i' = 0
            /\ pc' = IF N' > 0 THEN "anchor" ELSE "sleep"
            /\ UNCHANGED <<failed, all_items, page_no, raisedAt, playwright>>
       ELSE PageFails /\ UNCHANGED <<N, i>>
    /\ UNCHANGED <<mainVars, browser, results, idx, written, web, seen, origin,
                   fetched>>

\* one iteration of for i in range(N)
Harvest ==
    /\ pc = "anchor"
    /\ LET a    == Links[i + 1]
           name == clean_text(a.text)
           href == a.href
       IN  IF a.raises # "none"
           THEN PageFails /\ UNCHANGED <<i, origin>>
           ELSE /\ IF SkipAnchor(name, href)
                   THEN UNCHANGED <<all_items, origin>>
                   ELSE /\ all_items' = Append(all_items, Stub(catIdx, name, FullUrl(href)))
                        /\ origin' = Append(origin, <<page_no, i>>)
                /\ i' = i + 1
                /\ pc' = IF i + 1 < N THEN "anchor" ELSE "sleep"
                /\ UNCHANGED <<failed, page_no, raisedAt, playwright>>
    /\ UNCHANGED <<mainVars, browser, N, results, idx, written, web, seen, fetched>>

\* await asyncio.sleep(REQUEST_DELAY), then the next iteration
Sleep ==
    /\ pc = "sleep"
    /\ pc' = NextPage(page_no).pc
    /\ page_no' = NextPage(page_no).page_no
    /\ UNCHANGED <<mainVars, playwright, browser, N, i, all_items, results, idx,
                   written, web, raisedAt, histVars>>

\* await browser.close(), and the async with block ends
Close ==
    /\ pc = "close"
    /\ \/ /\ browser' = "closed" /\ playwright' = "off" /\ pc' = "enrich"
          /\ UNCHANGED raisedAt
       \/ Raise("close") /\ UNCHANGED browser
    /\ UNCHANGED <<mainVars, page_no, N, i, all_items, results, idx, written,
                   web, histVars>>

(***************************************************************************)
(* scrape_category: step 2, enrichment, and the save                       *)
(***************************************************************************)
\* for idx in range(enrich_limit): requests.get(item["product_url"]) is sent
FetchStart ==
    /\ pc = "enrich" /\ idx < enrich_limit(all_items)
    /\ fetched' = Append(fetched, all_items[idx + 1].product_url)
    /\ pc' = "fetching"
    /\ UNCHANGED <<mainVars, playwright, browser, page_no, N, i, all_items,
                   results, idx, written, web, raisedAt, seen, failed, origin>>

\* the rest of extract_detail_fast, item.update(detail_data),
\* results.append(item)
FetchEnd ==
    /\ pc = "fetching"
    /\ LET item == all_items[idx + 1]
           r    == extract_detail_fast(Respond(web, item.product_url, idx))
           upd  == Update(item, r.fields)
       IN  IF r.raised
           THEN /\ pc' = "raised" /\ raisedAt' = "extract_detail_fast"
                /\ UNCHANGED <<all_items, results, idx>>
           ELSE /\ all_items' = [all_items EXCEPT ![idx + 1] = upd]
                /\ results' = AppendResult(results, upd)
                /\ idx' = idx + 1
                /\ pc' = "enrich"
                /\ UNCHANGED raisedAt
    /\ UNCHANGED <<mainVars, playwright, browser, page_no, N, i, written, web,
                   histVars>>

\* the loop is over: save_json(results, out_file); return out_file
Save ==
    /\ pc = "enrich" /\ idx >= enrich_limit(all_items)
    /\ \/ written' = results /\ pc' = "returned" /\ UNCHANGED raisedAt
       \/ pc' = "raised" /\ raisedAt' = "save_json" /\ UNCHANGED written
    /\ UNCHANGED <<mainVars, playwright, browser, page_no, N, i, all_items,
                   results, idx, web, histVars>>

Next ==
    \/ Call \/ Return \/ Abort \/ Finish
    \/ Start \/ Launch \/ NewPage \/ SetHeaders
    \/ Goto \/ Count \/ Harvest \/ Sleep \/ Close
    \/ FetchStart \/ FetchEnd \/ Save

Spec == Init /\ [][Next]_vars


(***************************************************************************)
(* Properties.                                                             *)
(***************************************************************************)
\* the anchor behind the k-th stub
AnchorAt(k) == LinksOf(seen[origin[k][1]])[origin[k][2] + 1]
\* the positions of the stubs that came from page p
StubsOf(p) == {k \in 1..Len(origin) : origin[k][1] = p}
\* the anchor indices page p contributed
IndicesOf(p) == {origin[k][2] : k \in StubsOf(p)}
NonEmpty(x) == x # None /\ x # Some(<<>>)
Usable(a) ==
    /\ a.text # None /\ Strip(CollapseWs(a.text[1])) # <<>>
    /\ NonEmpty(a.href)
\* the last stage of a crawl that got through the listing phase
PastListing ==
    \/ pc \in {"close", "enrich", "fetching", "returned"}
    \/ pc = "raised" /\ raisedAt \in {"close", "save_json"}
SessionInit == {"async_playwright", "launch"}

\* C1: every record collected, and every record in the list given to
\* save_json, has a non-empty product_name and a non-empty product_url, and
\* every record comes from an anchor whose cleaned text and href are both
\* non-empty.
C1_NonEmptyNameAndUrl ==
    /\ \A k \in 1..Len(all_items) :
          NonEmpty(all_items[k].product_name) /\ NonEmpty(all_items[k].product_url)
    /\ \A k \in 1..Len(written) :
          NonEmpty(written[k].product_name) /\ NonEmpty(written[k].product_url)
    /\ \A k \in 1..Len(origin) : Usable(AnchorAt(k))

\* a crawl that harvested a whole page holding every kind of unusable anchor
\* and wrote its three usable ones
C1_Witness ==
    /\ pc = "returned"
    /\ \E p \in 1..Len(seen) :
          seen[p] = "mixed" /\ p \notin failed /\ IndicesOf(p) = {0, 5, 6}
    /\ Len(written) >= 3

\* C2: no exception leaves extract_detail_fast; a fetch that met a transport
\* error, a status other than success or an unparsable body left exactly the
\* null fields in its record, and the enrichment loop went on to the next item.
C2_DetailFetchNeverRaises ==
    /\ raisedAt # "extract_detail_fast"
    /\ pc \in {"enrich", "fetching"} => Len(results) = idx
    /\ \A k \in 1..Len(results) :
          LET resp == Respond(web, results[k].product_url, k - 1)
          IN  (resp.kind = "error" \/ resp.status \notin 200..299 \/ ~resp.parses)
                 => /\ results[k].price = None
                    /\ results[k].supplier = None
                    /\ results[k].location = None

\* a crawl whose fetches met a 404, an unparsable body and a network error,
\* with fetches after them, and was written
C2_Witness ==
    /\ pc = "returned"
    /\ web.mode = "flaky"
    /\ Len(written) >= 8
    /\ \E k \in 1..Len(written) : written[k].price # None

\* C3: a failure on a listing page never leaves scrape_category; a page
\* failure is always followed by the next page number; a crawl past its
\* listing phase has navigated to every page 1..MAX_PAGES; and the written
\* result holds the stubs of every page that did not fail.
C3_PageFailureAbsorbed ==
    /\ raisedAt # "listing page"
    /\ \A k \in failed : k <= Len(seen) /\ (k < MAX_PAGES => page_no > k)
    /\ MAX_PAGES \in failed => PastListing
    /\ PastListing => Len(seen) = MAX_PAGES
    /\ pc = "returned" =>
          /\ Len(written) = Len(origin)
          /\ \A p \in 1..MAX_PAGES :
                p \notin failed =>
                   IndicesOf(p) = {j \in 0..(PerPageCap - 1) :
                                      /\ j < Len(LinksOf(seen[p]))
                                      /\ Usable(LinksOf(seen[p])[j + 1])}

\* the first page failed, a later one did not, and its stubs were written
C3_Witness ==
    /\ pc = "returned"
    /\ 1 \in failed
    /\ \E p \in 2..MAX_PAGES : p \notin failed /\ StubsOf(p) # {}
    /\ Len(written) > 0

\* C4: a session-initialization failure in one category's crawl does not
\* abort the batch: main is never left by that exception.
C4_SessionFailureKeepsBatch ==
    (pc = "raised" /\ raisedAt \in SessionInit) => mainPc # "aborted"

\* C5: scrape_category never ends, by return or by exception, with a launched
\* browser that was not closed.
C5_BrowserClosedOnEveryExit ==
    pc \in {"returned", "raised"} => browser # "open"

\* C6: the written records are in page-then-anchor discovery order, one per
\* stub, each carrying the name and URL of the anchor at its position.
C6_DiscoveryOrder ==
    pc = "returned" =>
       /\ Len(written) = Len(origin)
       /\ \A a, b \in 1..Len(origin) :
             a < b => \/ origin[a][1] < origin[b][1]
                      \/ origin[a][1] = origin[b][1] /\ origin[a][2] < origin[b][2]
       /\ \A k \in 1..Len(written) :
             /\ written[k].product_name = clean_text(AnchorAt(k).text)
             /\ written[k].product_url = FullUrl(AnchorAt(k).href)
             /\ written[k].category = catIdx

\* records of two pages, several from each, were written
C6_Witness ==
    /\ pc = "returned"
    /\ \E p, q \in 1..MAX_PAGES :
          p < q /\ Cardinality(StubsOf(p)) >= 2 /\ Cardinality(StubsOf(q)) >= 2

\* C7: once the enrichment loop is over, requests.get was called exactly once
\* per harvested stub, with the stubs' URLs in order, and the number of
\* records written is the number of stubs.
C7_ExhaustiveEnrichment ==
    /\ Len(fetched) <= Len(origin)
    /\ \A k \in 1..Len(fetched) : fetched[k] = FullUrl(AnchorAt(k).href)
    /\ (pc = "returned" \/ (pc = "raised" /\ raisedAt = "save_json")) =>
          /\ Len(fetched) = Len(origin)
          /\ Len(results) = Len(origin)
    /\ pc = "returned" => Len(written) = Len(origin)

\* a crawl with more than PerPageCap stubs whose fetches all failed was written
C7_Witness ==
    /\ pc = "returned"
    /\ web.mode = "down"
    /\ Len(written) > PerPageCap
    /\ \A k \in 1..Len(written) : written[k].price = None

\* C8: whenever a detail fetch is in progress or has been issued, the browser
\* is closed and the playwright context has exited.
C8_BrowserClosedBeforeFetch ==
    (pc = "fetching" \/ Len(fetched) > 0) => (browser = "closed" /\ playwright = "off")

\* a detail fetch is in progress
C8_Witness == pc = "fetching" /\ Len(fetched) = 1

\* C9: no page contributes more than PerPageCap stubs and a category has at
\* most MAX_PAGES * PerPageCap stubs.
C9_StubBound ==
    /\ Len(all_items) <= MAX_PAGES * PerPageCap
    /\ Len(written) <= MAX_PAGES * PerPageCap
    /\ \A p \in 1..Len(seen) :
          /\ Cardinality(StubsOf(p)) <= PerPageCap
          /\ \A j \in IndicesOf(p) : j < PerPageCap
    /\ \A k \in 1..Len(origin) : origin[k][1] \in 1..MAX_PAGES
    /\ Len(all_items) = Len(origin)

\* a page with more than PerPageCap usable anchors was harvested up to the cap
C9_Witness ==
    /\ pc = "returned"
    /\ \E p \in 1..Len(seen) :
          /\ Len(LinksOf(seen[p])) > PerPageCap
          /\ Cardinality(StubsOf(p)) = PerPageCap

\* C10: the stubs harvested from a page before its extraction failed stay in
\* the stub sequence and are written: a failed page contributes exactly its
\* usable anchors below the first raising one.
C10_PartialPageKept ==
    /\ Len(all_items) = Len(origin)
    /\ \A p \in failed :
          LET links == LinksOf(seen[p])
              bad   == {j \in 1..Len(links) : links[j].raises # "none"}
          IN  (p < page_no \/ PastListing) =>
                 IndicesOf(p) = {j \in 0..(Len(links) - 1) :
                                    /\ j < PerPageCap
                                    /\ \A b \in bad : j + 1 < b
                                    /\ bad # {}
                                    /\ Usable(links[j + 1])}
    /\ pc = "returned" =>
          \A k \in 1..Len(origin) :
             written[k].product_name = clean_text(AnchorAt(k).text)

\* a page failed at its third anchor and its first two were written
C10_Witness ==
    /\ pc = "returned"
    /\ \E p \in failed : seen[p] = "partial" /\ IndicesOf(p) = {0, 1}
    /\ Len(written) >= 2

=============================================================================
